---- MODULE Spec2Model ----
(***************************************************************************)
(* A model of fend's exact/symbolic real-number core (core/src/num/real.rs) *)
(* and of the string plumbing of its wasm bindings (wasm/src/lib.rs).       *)
(*                                                                         *)
(* A call is one step: from pc = "idle" an operation is applied to inputs  *)
(* drawn from bounded sets, its outcome is stored in ret, and Return gives  *)
(* control back to the caller.                                             *)
(***************************************************************************)
EXTENDS Integers, Sequences, FiniteSets, TLC

VARIABLES pc, op, args, ret

vars == <<pc, op, args, ret>>

(***************************************************************************)
(* Bounds of the model.                                                    *)
(***************************************************************************)
\* numerators of the operand rationals range over -MaxNum..MaxNum
MaxNum == 3
\* denominators of the operand rationals range over 1..MaxDen
MaxDen == 3
\* the interrupt collaborator's answers are enumerated for the first
\* MaxPolls calls into the rational primitive; later calls are not cancelled
MaxPolls == 3
\* width of usize in bits (the target's pointer width, scaled down)
UsizeBits == 2
\* leading digits kept of the pi literal (TLC's integers are 32 bits wide)
PiDigits == 3
\* number of '\0'-separated inputs of evaluate_fend_with_timeout_multiple
MaxInputs == 3
\* length of the variables string given to decode_hex
MaxHexLen == 3

(***************************************************************************)
(* The rational primitive (BigRat), by its contract: canonical fractions.  *)
(***************************************************************************)
Abs(x) == IF x < 0 THEN -x ELSE x

RECURSIVE GCD(_, _)
GCD(a, b) == IF b = 0 THEN a ELSE GCD(b, a % b)

\* the canonical fraction n/d, d # 0
Rat(n, d) ==
    LET g == GCD(Abs(n), Abs(d))
        s == IF d < 0 THEN -1 ELSE 1
    IN  [n |-> s * (n \div g), d |-> s * (d \div g)]

BigRat_from(i) == Rat(i, 1)

Zero == BigRat_from(0)

\* the value of a transcendental routine of the primitive is not computed:
\* it is the term fn(a), possibly negated
Opaque(fn, a) == [fn |-> fn, a |-> a, neg |-> FALSE]

IsOpaque(v) == "fn" \in DOMAIN v

BigRat_neg(a) == IF IsOpaque(a) THEN [a EXCEPT !.neg = ~@] ELSE Rat(-a.n, a.d)

RatAdd(a, b) == Rat(a.n * b.d + b.n * a.d, a.d * b.d)

RatSub(a, b) == Rat(a.n * b.d - b.n * a.d, a.d * b.d)

RatMul(a, b) == Rat(a.n * b.n, a.d * b.d)

\* b # Zero
RatDiv(a, b) == Rat(a.n * b.d, a.d * b.n)

BigRat_cmp(a, b) ==
    LET l == a.n * b.d
        r == b.n * a.d
    IN  IF l < r THEN "Less" ELSE IF l = r THEN "Equal" ELSE "Greater"

(***************************************************************************)
(* The interrupt collaborator: int[i] says whether the i-th call into the  *)
(* rational primitive that consults it is cancelled. k counts those calls.  *)
(***************************************************************************)
Never == <<>>

Interrupted(int, k) == (k + 1) \in DOMAIN int /\ int[k + 1]

NoVal == [none |-> TRUE]

PrimOk(v, k) == [st |-> "Ok", v |-> v, k |-> k + 1]

PrimErr(st, k) == [st |-> st, v |-> NoVal, k |-> k + 1]

BigRat_add(a, b, int, k) ==
    IF Interrupted(int, k) THEN PrimErr("Interrupt", k) ELSE PrimOk(RatAdd(a, b), k)

BigRat_sub(a, b, int, k) ==
    IF Interrupted(int, k) THEN PrimErr("Interrupt", k) ELSE PrimOk(RatSub(a, b), k)

BigRat_mul(a, b, int, k) ==
    IF Interrupted(int, k) THEN PrimErr("Interrupt", k) ELSE PrimOk(RatMul(a, b), k)

\* a zero divisor is refused before the interrupt is consulted
BigRat_div(a, b, int, k) ==
    IF b = Zero THEN [st |-> "DivideByZero", v |-> NoVal, k |-> k]
    ELSE IF Interrupted(int, k) THEN PrimErr("Interrupt", k)
    ELSE PrimOk(RatDiv(a, b), k)

USIZE_MAX == 2 ^ UsizeBits - 1

BigRat_try_as_usize(a, int, k) ==
    IF Interrupted(int, k) THEN PrimErr("Interrupt", k)
    ELSE IF a.n < 0 \/ a.d # 1 \/ a.n > USIZE_MAX THEN PrimErr("Error", k)
    ELSE PrimOk(a.n, k)

\* a routine returning (value, exact): exact is the primitive's own answer pe
BigRat_approx2(fn, a, int, k, pe) ==
    IF Interrupted(int, k) THEN PrimErr("Interrupt", k)
    ELSE [st |-> "Ok", v |-> Opaque(fn, a), k |-> k + 1, exact |-> pe]

\* a routine that may fail with a domain error (dom says the argument is
\* inside the domain)
BigRat_approx1(fn, a, int, k, dom) ==
    IF Interrupted(int, k) THEN PrimErr("Interrupt", k)
    ELSE IF ~dom THEN PrimErr("Error", k)
    ELSE PrimOk(Opaque(fn, a), k)

(***************************************************************************)
(* Real: Pattern::Simple(r) is r, Pattern::Pi(n) is n * pi.                *)
(***************************************************************************)
Simple(r) == [pattern |-> "Simple", r |-> r]

Pi(n) == [pattern |-> "Pi", r |-> n]

from_BigRat(n) == Simple(n)

from_u64(i) == Simple(BigRat_from(i))

pi == Pi(BigRat_from(1))

neg(self) ==
    IF self.pattern = "Simple" THEN from_BigRat(BigRat_neg(self.r))
    ELSE Pi(BigRat_neg(self.r))

\* the literals of approximate, digit by digit
PiNumLiteral == <<3, 1, 4, 1, 5, 9, 2, 6, 5, 3, 5, 8, 9, 7, 9, 3, 2, 3, 8>>

PiDenLiteral == <<1, 0, 0, 0, 0, 0, 0, 0, 0, 0, 0, 0, 0, 0, 0, 0, 0, 0, 0>>

RECURSIVE DigitsValue(_)
DigitsValue(s) ==
    IF s = <<>> THEN 0
    ELSE 10 * DigitsValue(SubSeq(s, 1, Len(s) - 1)) + s[Len(s)]

\* both literals cut to their PiDigits leading digits
PI_NUM == BigRat_from(DigitsValue(SubSeq(PiNumLiteral, 1, PiDigits)))

PI_DEN == BigRat_from(DigitsValue(SubSeq(PiDenLiteral, 1, PiDigits)))

\* the outcome of a Real operation: st is Ok, Interrupt, DivideByZero, Error
\* or Panic; flag is the exactness flag ("none" when the operation returns
\* a bare value); k the calls made into the primitive with the caller's
\* interrupt; ap the calls of approximate made with the caller's interrupt
Ret(v, flag, k, ap) == [st |-> "Ok", v |-> v, flag |-> flag, k |-> k, ap |-> ap]

Fail(st, k, ap) == [st |-> st, v |-> NoVal, flag |-> "none", k |-> k, ap |-> ap]

Flag(b) == IF b THEN "true" ELSE "false"

approximate(self, int, k) ==
    IF self.pattern = "Simple" THEN [st |-> "Ok", v |-> self.r, k |-> k]
    ELSE LET p == BigRat_div(PI_NUM, PI_DEN, int, k)
         IN  IF p.st = "DivideByZero" THEN [p EXCEPT !.st = "Panic"]
             ELSE IF p.st # "Ok" THEN p
             ELSE BigRat_mul(self.r, p.v, int, p.k)

\* cmp with the cross-variant arm comparing the factors as they are
cmp_raw(self, other) ==
    [st |-> "Ok", ord |-> BigRat_cmp(self.r, other.r),
     ap |-> IF self.pattern = other.pattern THEN 0 ELSE 2]

\* impl Ord for Real. The cross-variant arm approximates both sides under
\* crate::interrupt::Never and unwraps; ap counts its calls of approximate
cmp(self, other) ==
    IF self.pattern = other.pattern
    THEN [st |-> "Ok", ord |-> BigRat_cmp(self.r, other.r), ap |-> 0]
    ELSE LET a == approximate(self, Never, 0)
             b == approximate(other, Never, 0)
         IN  IF a.st # "Ok" \/ b.st # "Ok"
             THEN [st |-> "Panic", ord |-> "none", ap |-> 2]
             ELSE [st |-> "Ok", ord |-> BigRat_cmp(a.v, b.v), ap |-> 2]

\* impl PartialEq for Real
eq(self, other) == cmp(self, other).ord = "Equal"

try_as_usize(self, int, k) ==
    IF self.pattern = "Simple"
    THEN LET u == BigRat_try_as_usize(self.r, int, k)
         IN  IF u.st # "Ok" THEN Fail(u.st, u.k, 0) ELSE Ret(u.v, "none", u.k, 0)
    ELSE IF self.r = BigRat_from(0) THEN Ret(0, "none", k, 0)
    ELSE Fail("Error", k, 0)

\* pe: the exactness the primitive's sin reports
RECURSIVE sin(_, _, _, _)
sin(self, int, k, pe) ==
    IF self.pattern = "Simple"
    THEN LET s == BigRat_approx2("sin", self.r, int, k, pe)
         IN  IF s.st # "Ok" THEN Fail(s.st, s.k, 0)
             ELSE Ret(from_BigRat(s.v), Flag(s.exact), s.k, 0)
    ELSE IF BigRat_cmp(self.r, BigRat_from(0)) = "Less"
    THEN LET inv == sin(neg(Pi(self.r)), int, k, pe)
         IN  IF inv.st # "Ok" THEN inv ELSE [inv EXCEPT !.v = neg(inv.v)]
    ELSE LET m == BigRat_mul(self.r, BigRat_from(2), int, k)
         IN  IF m.st # "Ok" THEN Fail(m.st, m.k, 0)
             ELSE LET u == BigRat_try_as_usize(m.v, int, m.k)
                  IN  IF u.st = "Ok"
                      THEN IF u.v % 2 = 0 THEN Ret(from_u64(0), "true", u.k, 0)
                           ELSE IF u.v % 4 = 1 THEN Ret(from_u64(1), "true", u.k, 0)
                           ELSE Ret(neg(from_u64(1)), "true", u.k, 0)
                      ELSE LET a == approximate(Pi(self.r), int, u.k)
                           IN  IF a.st # "Ok" THEN Fail(a.st, a.k, 1)
                               ELSE LET s == BigRat_approx2("sin", a.v, int, a.k, pe)
                                    IN  IF s.st # "Ok" THEN Fail(s.st, s.k, 1)
                                        ELSE Ret(from_BigRat(s.v), "false", s.k, 1)

\* asin, acos, acosh, atanh, ln, log2, log10 and factorial fail with a
\* message (IntErr<String, I>); the others cannot (IntErr<Never, I>)
Fallible == {"asin", "acos", "acosh", "atanh", "ln", "log2", "log10", "factorial"}

Infallible == {"atan", "sinh", "cosh", "tanh", "asinh"}

\* Ok(Self::from(self.approximate(int)?.fn(int)?)); dom: the primitive
\* finds its argument inside fn's domain
forward(fn, self, int, k, dom) ==
    LET a == approximate(self, int, k)
    IN  IF a.st # "Ok" THEN Fail(a.st, a.k, 1)
        ELSE LET p == BigRat_approx1(fn, a.v, int, a.k, dom \/ fn \in Infallible)
             IN  IF p.st # "Ok" THEN Fail(p.st, p.k, 1)
                 ELSE Ret(from_BigRat(p.v), "none", p.k, 1)

\* div with the operands of the Simple / Pi arm in the wrong order
div_swapped(self, rhs, int, k) ==
    IF self.pattern = "Simple" /\ rhs.pattern = "Pi"
    THEN LET b == approximate(rhs, int, k)
         IN  IF b.st # "Ok" THEN Fail(b.st, b.k, 1)
             ELSE LET q == BigRat_div(b.v, self.r, int, b.k)
                  IN  IF q.st # "Ok" THEN Fail(q.st, q.k, 1)
                      ELSE Ret(from_BigRat(q.v), "false", q.k, 1)
    ELSE LET q == BigRat_div(self.r, rhs.r, int, k)
         IN  IF q.st # "Ok" THEN Fail(q.st, q.k, 0)
             ELSE IF self.pattern = "Pi" /\ rhs.pattern = "Simple"
             THEN Ret(Pi(q.v), "true", q.k, 0)
             ELSE Ret(from_BigRat(q.v), "true", q.k, 0)

div(self, rhs, int, k) ==
    IF self.pattern = "Simple"
    THEN IF rhs.pattern = "Simple"
         THEN LET q == BigRat_div(self.r, rhs.r, int, k)
              IN  IF q.st # "Ok" THEN Fail(q.st, q.k, 0)
                  ELSE Ret(from_BigRat(q.v), "true", q.k, 0)
         ELSE LET b == approximate(rhs, int, k)
              IN  IF b.st # "Ok" THEN Fail(b.st, b.k, 1)
                  ELSE LET q == BigRat_div(self.r, b.v, int, b.k)
                       IN  IF q.st # "Ok" THEN Fail(q.st, q.k, 1)
                           ELSE Ret(from_BigRat(q.v), "false", q.k, 1)
    ELSE LET q == BigRat_div(self.r, rhs.r, int, k)
         IN  IF q.st # "Ok" THEN Fail(q.st, q.k, 0)
             ELSE IF rhs.pattern = "Simple" THEN Ret(Pi(q.v), "true", q.k, 0)
             ELSE Ret(from_BigRat(q.v), "true", q.k, 0)

\* the primitive's rendering is the term format(value, style); pe is the
\* exactness of the rendering, dom whether the rendering succeeds
format(self, style, int, k, pe, dom) ==
    LET st2 == IF style = "Auto"
               THEN IF self.pattern = "Pi" THEN "ApproxFloat(10)"
                    ELSE "ExactFloatWithFractionFallback"
               ELSE style
        s == approximate(self, int, k)
    IN  IF s.st # "Ok" THEN Fail(s.st, s.k, 1)
        ELSE LET x == BigRat_approx1("format", <<s.v, st2>>, int, s.k, dom)
             IN  IF x.st # "Ok" THEN Fail(x.st, x.k, 1)
                 ELSE Ret(x.v, Flag(pe), x.k, 1)

\* a primitive routine returning (value, exact) that may also fail
BigRat_approx3(fn, a, int, k, pe, dom) ==
    IF ~dom /\ ~Interrupted(int, k) THEN PrimErr("Error", k)
    ELSE BigRat_approx2(fn, a, int, k, pe)

pow(self, rhs, int, k, pe, dom) ==
    IF self.pattern = "Simple" /\ rhs.pattern = "Simple"
    THEN LET p == BigRat_approx3("pow", <<self.r, rhs.r>>, int, k, pe, dom)
         IN  IF p.st # "Ok" THEN Fail(p.st, p.k, 0)
             ELSE Ret(from_BigRat(p.v), Flag(p.exact), p.k, 0)
    ELSE LET a == approximate(self, int, k)
         IN  IF a.st # "Ok" THEN Fail(a.st, a.k, 1)
             ELSE LET b == approximate(rhs, int, a.k)
                  IN  IF b.st # "Ok" THEN Fail(b.st, b.k, 2)
                      ELSE LET p == BigRat_approx3("pow", <<a.v, b.v>>, int, b.k, pe, dom)
                           IN  IF p.st # "Ok" THEN Fail(p.st, p.k, 2)
                               ELSE Ret(from_BigRat(p.v), "false", p.k, 2)

root_n(self, n, int, k, pe, dom) ==
    IF self.pattern = "Simple"
    THEN IF n.pattern = "Simple"
         THEN LET p == BigRat_approx3("root_n", <<self.r, n.r>>, int, k, pe, dom)
              IN  IF p.st # "Ok" THEN Fail(p.st, p.k, 0)
                  ELSE Ret(from_BigRat(p.v), Flag(p.exact), p.k, 0)
         ELSE LET b == approximate(n, int, k)
              IN  IF b.st # "Ok" THEN Fail(b.st, b.k, 1)
                  ELSE LET p == BigRat_approx3("root_n", <<self.r, b.v>>, int, b.k, pe, dom)
                       IN  IF p.st # "Ok" THEN Fail(p.st, p.k, 1)
                           ELSE Ret(from_BigRat(p.v), "false", p.k, 1)
    ELSE LET a == approximate(self, int, k)
         IN  IF a.st # "Ok" THEN Fail(a.st, a.k, 1)
             ELSE LET b == approximate(n, int, a.k)
                  IN  IF b.st # "Ok" THEN Fail(b.st, b.k, 2)
                      ELSE LET p == BigRat_approx3("root_n", <<a.v, b.v>>, int, b.k, pe, dom)
                           IN  IF p.st # "Ok" THEN Fail(p.st, p.k, 2)
                               ELSE Ret(from_BigRat(p.v), "false", p.k, 2)

mul(self, rhs, int, k) ==
    IF self.pattern = "Pi" /\ rhs.pattern = "Pi"
    THEN LET b == approximate(rhs, int, k)
         IN  IF b.st # "Ok" THEN Fail(b.st, b.k, 1)
             ELSE LET m == BigRat_mul(self.r, b.v, int, b.k)
                  IN  IF m.st # "Ok" THEN Fail(m.st, m.k, 1)
                      ELSE Ret(Pi(m.v), "none", m.k, 1)
    ELSE LET m == BigRat_mul(self.r, rhs.r, int, k)
         IN  IF m.st # "Ok" THEN Fail(m.st, m.k, 0)
             ELSE IF self.pattern = "Simple" /\ rhs.pattern = "Simple"
             THEN Ret(from_BigRat(m.v), "none", m.k, 0)
             ELSE Ret(Pi(m.v), "none", m.k, 0)

\* sub whose zero receiver returns rhs without negating it
sub_noneg(self, rhs, int, k) ==
    IF eq(rhs, from_u64(0)) THEN Ret(self, "true", k, 0)
    ELSE IF eq(self, from_u64(0)) THEN Ret(rhs, "true", k, 0)
    ELSE IF self.pattern = rhs.pattern
    THEN LET d == BigRat_sub(self.r, rhs.r, int, k)
         IN  IF d.st # "Ok" THEN Fail(d.st, d.k, 0)
             ELSE IF self.pattern = "Simple" THEN Ret(from_BigRat(d.v), "true", d.k, 0)
             ELSE Ret(Pi(d.v), "true", d.k, 0)
    ELSE LET a == approximate(self, int, k)
         IN  IF a.st # "Ok" THEN Fail(a.st, a.k, 1)
             ELSE LET b == approximate(rhs, int, a.k)
                  IN  IF b.st # "Ok" THEN Fail(b.st, b.k, 2)
                      ELSE LET d == BigRat_sub(a.v, b.v, int, b.k)
                           IN  IF d.st # "Ok" THEN Fail(d.st, d.k, 2)
                               ELSE Ret(from_BigRat(d.v), "false", d.k, 2)

sub(self, rhs, int, k) ==
    IF eq(rhs, from_u64(0)) THEN Ret(self, "true", k, 0)
    ELSE IF eq(self, from_u64(0)) THEN Ret(neg(rhs), "true", k, 0)
    ELSE IF self.pattern = rhs.pattern
    THEN LET d == BigRat_sub(self.r, rhs.r, int, k)
         IN  IF d.st # "Ok" THEN Fail(d.st, d.k, 0)
             ELSE IF self.pattern = "Simple" THEN Ret(from_BigRat(d.v), "true", d.k, 0)
             ELSE Ret(Pi(d.v), "true", d.k, 0)
    ELSE LET a == approximate(self, int, k)
         IN  IF a.st # "Ok" THEN Fail(a.st, a.k, 1)
             ELSE LET b == approximate(rhs, int, a.k)
                  IN  IF b.st # "Ok" THEN Fail(b.st, b.k, 2)
                      ELSE LET d == BigRat_sub(a.v, b.v, int, b.k)
                           IN  IF d.st # "Ok" THEN Fail(d.st, d.k, 2)
                               ELSE Ret(from_BigRat(d.v), "false", d.k, 2)

\* add without the zero fast path
add_nofast(self, rhs, int, k) ==
    IF self.pattern = rhs.pattern
    THEN LET s == BigRat_add(self.r, rhs.r, int, k)
         IN  IF s.st # "Ok" THEN Fail(s.st, s.k, 0)
             ELSE IF self.pattern = "Simple" THEN Ret(from_BigRat(s.v), "none", s.k, 0)
             ELSE Ret(Pi(s.v), "none", s.k, 0)
    ELSE LET a == approximate(self, int, k)
         IN  IF a.st # "Ok" THEN Fail(a.st, a.k, 1)
             ELSE LET b == approximate(rhs, int, a.k)
                  IN  IF b.st # "Ok" THEN Fail(b.st, b.k, 2)
                      ELSE LET s == BigRat_add(a.v, b.v, int, b.k)
                           IN  IF s.st # "Ok" THEN Fail(s.st, s.k, 2)
                               ELSE Ret(from_BigRat(s.v), "none", s.k, 2)

add(self, rhs, int, k) ==
    IF eq(self, from_u64(0)) THEN Ret(rhs, "none", k, 0)
    ELSE IF eq(rhs, from_u64(0)) THEN Ret(self, "none", k, 0)
    ELSE IF self.pattern = rhs.pattern
    THEN LET s == BigRat_add(self.r, rhs.r, int, k)
         IN  IF s.st # "Ok" THEN Fail(s.st, s.k, 0)
             ELSE IF self.pattern = "Simple" THEN Ret(from_BigRat(s.v), "none", s.k, 0)
             ELSE Ret(Pi(s.v), "none", s.k, 0)
    ELSE LET a == approximate(self, int, k)
         IN  IF a.st # "Ok" THEN Fail(a.st, a.k, 1)
             ELSE LET b == approximate(rhs, int, a.k)
                  IN  IF b.st # "Ok" THEN Fail(b.st, b.k, 2)
                      ELSE LET s == BigRat_add(a.v, b.v, int, b.k)
                           IN  IF s.st # "Ok" THEN Fail(s.st, s.k, 2)
                               ELSE Ret(from_BigRat(s.v), "none", s.k, 2)

(***************************************************************************)
(* wasm bindings: strings are sequences of characters.                     *)
(***************************************************************************)
\* the character '\0', written as a token
NUL == "\\0"

Str_Error == <<"E", "r", "r", "o", "r", ":", " ">>

\* str::split('\0'): the pieces between the separators, at least one
RECURSIVE split(_)
split(s) ==
    IF \A i \in DOMAIN s : s[i] # NUL THEN <<s>>
    ELSE LET i == CHOOSE j \in DOMAIN s :
                      s[j] = NUL /\ \A h \in 1..(j - 1) : s[h] # NUL
         IN  <<SubSeq(s, 1, i - 1)>> \o split(SubSeq(s, i + 1, Len(s)))

\* fend_core::Context::new() as create_context leaves it: no variable set
create_context == {}

\* fend_core::evaluate_with_interrupt on the inputs of the model: the empty
\* input has the unit type, "1" is a literal, "x=1" sets x, "x" reads it;
\* slow says the evaluation outlasts the timeout of its interrupt
evaluate_with_interrupt(input, ctx, slow) ==
    IF input = <<>> THEN [ok |-> TRUE, unit |-> TRUE, main |-> <<>>, ctx |-> ctx]
    ELSE IF slow THEN [ok |-> FALSE, unit |-> FALSE, main |-> <<"t">>, ctx |-> ctx]
    ELSE IF input = <<"1">> THEN [ok |-> TRUE, unit |-> FALSE, main |-> <<"1">>, ctx |-> ctx]
    ELSE IF input = <<"x", "=", "1">>
    THEN [ok |-> TRUE, unit |-> FALSE, main |-> <<"1">>, ctx |-> ctx \cup {"x"}]
    ELSE IF input = <<"x">> /\ "x" \in ctx
    THEN [ok |-> TRUE, unit |-> FALSE, main |-> <<"1">>, ctx |-> ctx]
    ELSE [ok |-> FALSE, unit |-> FALSE, main |-> <<"?">>, ctx |-> ctx]

\* the body of the for loop, for the pieces from the i-th on
RECURSIVE multiple_loop(_, _, _, _, _)
multiple_loop(pieces, slow, i, ctx, result) ==
    IF i > Len(pieces) THEN result
    ELSE LET r1 == IF result # <<>> THEN Append(result, NUL) ELSE result
             e == evaluate_with_interrupt(pieces[i], ctx, slow[i])
             r2 == IF e.ok
                   THEN IF ~e.unit THEN r1 \o e.main ELSE r1
                   ELSE (r1 \o Str_Error) \o e.main
         IN  multiple_loop(pieces, slow, i + 1, e.ctx, r2)

evaluate_fend_with_timeout_multiple(inputs, slow) ==
    multiple_loop(split(inputs), slow, 1, create_context, <<>>)

HexDigit == [c \in {"0", "f"} |-> IF c = "0" THEN 0 ELSE 15]

\* u8::from_str_radix(src, 16) on a string of two characters: an optional
\* '+', then hexadecimal digits, at least one
from_str_radix(src) ==
    IF src[1] \in DOMAIN HexDigit /\ src[2] \in DOMAIN HexDigit
    THEN [st |-> "Ok", v |-> 16 * HexDigit[src[1]] + HexDigit[src[2]]]
    ELSE IF src[1] = "+" /\ src[2] \in DOMAIN HexDigit
    THEN [st |-> "Ok", v |-> HexDigit[src[2]]]
    ELSE [st |-> "Err", v |-> 0]

\* the lazy map of decode_hex from byte offset i on: the slice s[i..i + 2]
\* panics when it ends past the string, and collect stops at the first Err
RECURSIVE decode_from(_, _)
decode_from(s, i) ==
    IF i >= Len(s) THEN [st |-> "Ok", v |-> <<>>]
    ELSE IF i + 2 > Len(s) THEN [st |-> "Panic", v |-> <<>>]
    ELSE LET b == from_str_radix(SubSeq(s, i + 1, i + 2))
         IN  IF b.st # "Ok" THEN [st |-> "Err", v |-> <<>>]
             ELSE LET rest == decode_from(s, i + 2)
                  IN  IF rest.st # "Ok" THEN rest
                      ELSE [st |-> "Ok", v |-> <<b.v>> \o rest.v]

decode_hex(s) == decode_from(s, 0)

\* des: deserialize_variables accepts the bytes, and the context then holds
\* the stored variable x
evaluate_fend_with_variables_json(input, slow, variables, des) ==
    LET d == IF variables # <<>> THEN decode_hex(variables)
             ELSE [st |-> "Err", v |-> <<>>]
        ctx == IF d.st = "Ok" /\ des THEN create_context \cup {"x"}
               ELSE create_context
        e == evaluate_with_interrupt(input, ctx, slow)
    IN  IF d.st = "Panic" THEN [st |-> "Panic", json |-> NoVal, restored |-> FALSE]
        ELSE [st |-> "Ok",
              json |-> IF e.ok
                       THEN [ok |-> TRUE, result |-> IF ~e.unit THEN e.main ELSE <<>>,
                             variables |-> e.ctx]
                       ELSE [ok |-> FALSE, result |-> e.main, variables |-> {}],
              restored |-> (d.st = "Ok" /\ des)]

(***************************************************************************)
(* The inputs of the model.                                                *)
(***************************************************************************)
Rats == {Rat(n, d) : n \in -MaxNum..MaxNum, d \in 1..MaxDen}

Reals == {Simple(r) : r \in Rats} \cup {Pi(r) : r \in Rats}

Ints == [1..MaxPolls -> BOOLEAN]

\* what a routine of the primitive answers: a failure reports no exactness
PrimAnswers == {[pe |-> TRUE, dom |-> TRUE], [pe |-> FALSE, dom |-> TRUE],
                [pe |-> FALSE, dom |-> FALSE]}

Styles == {"Auto", "Exact", "ApproxFloat(10)"}

Pieces == {<<>>, <<"1">>, <<"x", "=", "1">>, <<"x">>}

RECURSIVE join(_)
join(ps) == IF Len(ps) = 1 THEN ps[1] ELSE (ps[1] \o <<NUL>>) \o join(Tail(ps))

HexChars == {"0", "f", "+", "g"}

HexStrings == UNION {[1..n -> HexChars] : n \in 0..MaxHexLen}

(***************************************************************************)
(* The state machine.                                                      *)
(***************************************************************************)
Init ==
    /\ pc = "idle"
    /\ op = "none"
    /\ args = NoVal
    /\ ret = NoVal

Call(o, a, r) ==
    /\ pc' = "done"
    /\ op' = o
    /\ args' = a
    /\ ret' = r

Approximate ==
    /\ pc = "idle"
    /\ \E self \in Reals, int \in Ints :
            LET a == approximate(self, int, 0)
            IN  Call("approximate", [self |-> self, int |-> int],
                     [st |-> a.st, v |-> a.v, flag |-> "none", k |-> a.k, ap |-> 1])

TryAsUsize ==
    /\ pc = "idle"
    /\ \E self \in Reals, int \in Ints :
            Call("try_as_usize", [self |-> self, int |-> int], try_as_usize(self, int, 0))

Sin ==
    /\ pc = "idle"
    /\ \E self \in Reals, int \in Ints, pe \in BOOLEAN :
            Call("sin", [self |-> self, int |-> int, pe |-> pe], sin(self, int, 0, pe))

Forward ==
    /\ pc = "idle"
    /\ \E fn \in Fallible \cup Infallible, self \in Reals, int \in Ints, dom \in BOOLEAN :
            Call(fn, [self |-> self, int |-> int, dom |-> dom], forward(fn, self, int, 0, dom))

Div ==
    /\ pc = "idle"
    /\ \E self \in Reals, rhs \in Reals, int \in Ints :
            Call("div", [self |-> self, rhs |-> rhs, int |-> int], div(self, rhs, int, 0))

Format ==
    /\ pc = "idle"
    /\ \E self \in Reals, style \in Styles, int \in Ints, o \in PrimAnswers :
            LET pe == o.pe
                dom == o.dom
            IN  Call("format", [self |-> self, style |-> style, int |-> int, pe |-> pe, dom |-> dom],
                     format(self, style, int, 0, pe, dom))

Pow ==
    /\ pc = "idle"
    /\ \E self \in Reals, rhs \in Reals, int \in Ints, o \in PrimAnswers :
            LET pe == o.pe
                dom == o.dom
            IN  Call("pow", [self |-> self, rhs |-> rhs, int |-> int, pe |-> pe, dom |-> dom],
                     pow(self, rhs, int, 0, pe, dom))

RootN ==
    /\ pc = "idle"
    /\ \E self \in Reals, n \in Reals, int \in Ints, o \in PrimAnswers :
            LET pe == o.pe
                dom == o.dom
            IN  Call("root_n", [self |-> self, rhs |-> n, int |-> int, pe |-> pe, dom |-> dom],
                     root_n(self, n, int, 0, pe, dom))

Mul ==
    /\ pc = "idle"
    /\ \E self \in Reals, rhs \in Reals, int \in Ints :
            Call("mul", [self |-> self, rhs |-> rhs, int |-> int], mul(self, rhs, int, 0))

Sub ==
    /\ pc = "idle"
    /\ \E self \in Reals, rhs \in Reals, int \in Ints :
            Call("sub", [self |-> self, rhs |-> rhs, int |-> int], sub(self, rhs, int, 0))

Add ==
    /\ pc = "idle"
    /\ \E self \in Reals, rhs \in Reals, int \in Ints :
            Call("add", [self |-> self, rhs |-> rhs, int |-> int], add(self, rhs, int, 0))

\* a comparison made inside an evaluation whose interrupt is int
Cmp ==
    /\ pc = "idle"
    /\ \E self \in Reals, other \in Reals, int \in Ints :
            LET c == cmp(self, other)
            IN  Call("cmp", [self |-> self, rhs |-> other, int |-> int],
                     [st |-> c.st, v |-> c.ord, flag |-> "none", k |-> 0, ap |-> c.ap,
                      eq |-> eq(self, other)])

Neg ==
    /\ pc = "idle"
    /\ \E self \in Reals :
            Call("neg", [self |-> self], Ret(neg(self), "none", 0, 0))

EvaluateMultiple ==
    /\ pc = "idle"
    /\ \E n \in 1..MaxInputs :
            \E ps \in [1..n -> Pieces], slow \in [1..n -> BOOLEAN] :
                Call("evaluate_fend_with_timeout_multiple",
                     [pieces |-> ps, inputs |-> join(ps), slow |-> slow],
                     [st |-> "Ok", v |-> evaluate_fend_with_timeout_multiple(join(ps), slow)])

DecodeHex ==
    /\ pc = "idle"
    /\ \E s \in HexStrings :
            Call("decode_hex", [s |-> s], decode_hex(s))

EvaluateWithVariablesJson ==
    /\ pc = "idle"
    /\ \E input \in Pieces, slow \in BOOLEAN, variables \in HexStrings, des \in BOOLEAN :
            Call("evaluate_fend_with_variables_json",
                 [input |-> input, slow |-> slow, variables |-> variables, des |-> des],
                 evaluate_fend_with_variables_json(input, slow, variables, des))

\* the caller takes the outcome
Return ==
    /\ pc = "done"
    /\ pc' = "idle"
    /\ op' = "none"
    /\ args' = NoVal
    /\ ret' = NoVal

Next ==
    \/ Approximate
    \/ TryAsUsize
    \/ Sin
    \/ Forward
    \/ Div
    \/ Format
    \/ Pow
    \/ RootN
    \/ Mul
    \/ Sub
    \/ Add
    \/ Cmp
    \/ Neg
    \/ EvaluateMultiple
    \/ DecodeHex
    \/ EvaluateWithVariablesJson
    \/ Return

Spec == Init /\ [][Next]_vars

(***************************************************************************)
(* The claims.                                                             *)
(***************************************************************************)
Done(o) == pc = "done" /\ op = o

IsZero(x) == x.r = Zero

\* some call into the primitive made during the operation was cancelled
Cancelled == \E i \in 1..ret.k : Interrupted(args.int, i - 1)

\* the rational a Real collapses to, computed without interruption
Approx(x) == approximate(x, Never, 0).v

\* C1: add and sub of two nonzero operands of different variants return
\* Simple(approximate(lhs) +/- approximate(rhs)) together with an explicit
\* exactness flag equal to false.
C1_MixedCollapseIsFlagged ==
    (pc = "done" /\ op \in {"add", "sub"}) =>
        ((/\ args.self.pattern # args.rhs.pattern
          /\ ~IsZero(args.self)
          /\ ~IsZero(args.rhs)
          /\ ret.st = "Ok")
         => /\ ret.v = Simple(IF op = "add"
                              THEN RatAdd(Approx(args.self), Approx(args.rhs))
                              ELSE RatSub(Approx(args.self), Approx(args.rhs)))
            /\ ret.flag = "false")

\* C2: mul never calls approximate, and its value is the exact product:
\* Simple(a*b) for two Simples, Pi(a*b) for a Simple and a Pi, and for two
\* Pis a factor that holds no approximation of pi.
C2_MulIsExact ==
    Done("mul") =>
        /\ ret.ap = 0
        /\ ret.st = "Ok" =>
             LET ab == RatMul(args.self.r, args.rhs.r)
             IN  IF args.self.pattern = "Simple" /\ args.rhs.pattern = "Simple"
                 THEN ret.v = Simple(ab)
                 ELSE IF args.self.pattern # args.rhs.pattern
                 THEN ret.v = Pi(ab)
                 ELSE IsZero(args.self) \/ IsZero(args.rhs)
                      \/ ret.v # Pi(RatMul(ab, RatDiv(PI_NUM, PI_DEN)))

\* C3 (as claimed): with z a zero of either variant, add(x, z) and add(z, x)
\* return x itself, same variant and same factor, and sub(x, z) returns x
\* with exact = true, also when x is a zero of the other variant.
C3_ZeroReturnsXItself ==
    /\ Done("add") =>
         /\ IsZero(args.rhs) => (ret.st = "Ok" /\ ret.v = args.self)
         /\ IsZero(args.self) => (ret.st = "Ok" /\ ret.v = args.rhs)
    /\ Done("sub") =>
         (IsZero(args.rhs) => (ret.st = "Ok" /\ ret.v = args.self /\ ret.flag = "true"))

\* C3 (amended): add(z, x) returns x itself; add(x, z) returns x itself when
\* x is not zero and returns z, which compares equal to x, when x is zero;
\* sub(x, z) returns x itself with exact = true. No call into the primitive
\* is made with the caller's interrupt.
C3_ZeroFastPath ==
    /\ Done("add") =>
         /\ IsZero(args.self) => (ret.st = "Ok" /\ ret.v = args.rhs /\ ret.k = 0)
         /\ (IsZero(args.rhs) /\ ~IsZero(args.self))
              => (ret.st = "Ok" /\ ret.v = args.self /\ ret.k = 0)
         /\ (IsZero(args.rhs) /\ IsZero(args.self))
              => (ret.v = args.rhs /\ eq(ret.v, args.self))
    /\ Done("sub") =>
         (IsZero(args.rhs) =>
              (ret.st = "Ok" /\ ret.v = args.self /\ ret.flag = "true" /\ ret.k = 0))

C3_Witness ==
    /\ Done("add")
    /\ args.self = Simple(Zero)
    /\ args.rhs = Pi(Zero)
    /\ ret.v = Pi(Zero)

IntOps ==
    {"approximate", "try_as_usize", "sin", "div", "format", "pow", "root_n", "mul",
     "sub", "add"} \cup Fallible \cup Infallible

\* C4: when a call into the rational primitive made during an operation is
\* cancelled, the operation returns the cancellation outcome and no value,
\* whatever the interrupt answers afterwards.
C4_CancellationPropagates ==
    (pc = "done" /\ op \in IntOps /\ Cancelled) =>
        (ret.st = "Interrupt" /\ ret.v = NoVal)

\* twice the factor of the receiver, when that is an integer
TwiceIsInteger(n) == n.d \in {1, 2}

Twice(n) == (2 * n.n) \div n.d

\* C5: without cancellation, sin(Pi(n)) with 2n an integer k of any sign and
\* magnitude is exact and is 0 for k even, 1 for k mod 4 = 1 and -1 for
\* k mod 4 = 3 (k taken modulo 4 as a nonnegative residue); with 2n not an
\* integer it is not exact.
C5_SinTable ==
    (Done("sin") /\ args.self.pattern = "Pi" /\ ~Cancelled) =>
        /\ ret.st = "Ok"
        /\ IF TwiceIsInteger(args.self.r)
           THEN /\ ret.flag = "true"
                /\ ret.v = IF Twice(args.self.r) % 2 = 0 THEN Simple(BigRat_from(0))
                           ELSE IF Twice(args.self.r) % 4 = 1 THEN Simple(BigRat_from(1))
                           ELSE Simple(BigRat_from(-1))
           ELSE ret.flag = "false"

Leq(x, y) == cmp(x, y).ord \in {"Less", "Equal"}

\* C6: cmp(x, y) is the comparison of approximate(x) with approximate(y), so
\* cmp is a total preorder, eq its equivalence, and Pi(0) equals Simple(0);
\* same-variant comparisons call approximate not at all, and no comparison
\* fails or is cancelled, whatever the interrupt of the evaluation around it.
C6_CmpIsApproximateOrder ==
    Done("cmp") =>
        /\ ret.st = "Ok"
        /\ ret.v = BigRat_cmp(Approx(args.self), Approx(args.rhs))
        /\ args.self.pattern = args.rhs.pattern => ret.ap = 0
        /\ ret.eq = (ret.v = "Equal")
        /\ Leq(args.self, args.rhs) \/ Leq(args.rhs, args.self)
        /\ ret.eq = eq(args.rhs, args.self)
        /\ \A z \in Reals :
               (Leq(args.self, args.rhs) /\ Leq(args.rhs, z)) => Leq(args.self, z)
        /\ (IsZero(args.self) /\ IsZero(args.rhs)) => ret.eq

C6_Witness ==
    /\ Done("cmp")
    /\ args.self = pi
    /\ args.rhs = from_u64(3)
    /\ \A i \in DOMAIN args.int : args.int[i]
    /\ ret.st = "Ok"
    /\ ret.v = "Greater"
    /\ ret.ap = 2

\* C7: div by a divisor whose rational is zero fails, unless cancelled, with
\* the divide-by-zero marker and no value, whatever the numerator; and div
\* fails with that marker for no other divisor.
C7_DivideByZero ==
    Done("div") =>
        /\ (IsZero(args.rhs) /\ ~Cancelled) => (ret.st = "DivideByZero" /\ ret.v = NoVal)
        /\ ret.st = "DivideByZero" => IsZero(args.rhs)

C7_Witness ==
    /\ Done("div")
    /\ args.self = from_u64(1)
    /\ args.rhs = Pi(Zero)
    /\ ~Cancelled
    /\ ret.st = "DivideByZero"

\* C8: add(Pi(m), Pi(n)) is Pi(m + n) and sub(Pi(m), Pi(n)) is Pi(m - n)
\* with exact = true, also when m or n is zero; neither calls approximate
\* with the caller's interrupt, and only a cancellation makes them fail.
C8_PiAddSubExact ==
    ((pc = "done" /\ op \in {"add", "sub"})
       /\ args.self.pattern = "Pi" /\ args.rhs.pattern = "Pi") =>
        /\ ret.ap = 0
        /\ ret.st \in {"Ok", "Interrupt"}
        /\ ret.st = "Interrupt" => Cancelled
        /\ (ret.st = "Ok" /\ op = "add") => ret.v = Pi(RatAdd(args.self.r, args.rhs.r))
        /\ (ret.st = "Ok" /\ op = "sub") =>
               (ret.v = Pi(RatSub(args.self.r, args.rhs.r)) /\ ret.flag = "true")

C8_Witness ==
    /\ Done("sub")
    /\ args.self = Pi(Zero)
    /\ args.rhs = pi
    /\ ret.st = "Ok"
    /\ ret.v = Pi(BigRat_from(-1))
    /\ ret.flag = "true"

\* what the i-th and later inputs evaluate to, in order, against one context
RECURSIVE outcomes(_, _, _, _)
outcomes(pieces, slow, i, ctx) ==
    IF i > Len(pieces) THEN <<>>
    ELSE LET e == evaluate_with_interrupt(pieces[i], ctx, slow[i])
         IN  <<IF e.ok THEN (IF e.unit THEN <<>> ELSE e.main) ELSE Str_Error \o e.main>>
             \o outcomes(pieces, slow, i + 1, e.ctx)

\* C9: for k >= 1 inputs separated by '\0' the result is exactly k results
\* separated by '\0', the i-th being the outcome of the i-th input.
C9_OneResultPerInput ==
    Done("evaluate_fend_with_timeout_multiple") =>
        split(ret.v) = outcomes(args.pieces, args.slow, 1, create_context)

\* C10: decode_hex returns the bytes or an error for every string and never
\* aborts; evaluate_fend_with_variables_json returns a JSON string for every
\* variables string, ignoring the stored variables when the string is empty,
\* is not valid hex or cannot be deserialized.
C10_VariablesNeverAbort ==
    /\ Done("decode_hex") => ret.st \in {"Ok", "Err"}
    /\ Done("evaluate_fend_with_variables_json") =>
         /\ ret.st = "Ok"
         /\ (args.variables = <<>> \/ decode_hex(args.variables).st # "Ok" \/ ~args.des)
              => ~ret.restored
====
